---------------------------- MODULE Spec2Model ----------------------------
(***************************************************************************)
(* A model of FletMQTTClient (src/flet_mqtt_client.py): the connection     *)
(* lifecycle (start / stop / _background_loop), the three paho callbacks   *)
(* (_on_connect, _on_message_internal, _on_disconnect) and publish().      *)
(*                                                                         *)
(* Scheduling.  Everything runs on one asyncio event loop: start(),        *)
(* stop(), publish() and _background_loop are coroutines of that loop, and *)
(* the paho callbacks are called synchronously from client.loop() inside   *)
(* _background_loop.  Code between two awaits is therefore one atomic      *)
(* step.  The awaits are: asyncio.sleep(0.1) in _background_loop (line     *)
(* 120), asyncio.wait_for(connected_event.wait(), 5.0) in publish (line    *)
(* 153) and "await self.page.run_task(...)" in start (line 133).           *)
(*                                                                         *)
(* One call of client.loop() is modelled as a sequence of steps (one per   *)
(* callback) during which no other coroutine may run.  A start() call is   *)
(* one step, and the return to its caller the next one: nothing else runs  *)
(* between the two, as start() does not suspend.                           *)
(*                                                                         *)
(* External collaborators (paho, flet, asyncio) are modelled by what they  *)
(* do for this code:                                                       *)
(*   - flet's page.run_task schedules the coroutine on the loop and        *)
(*     returns a concurrent.futures.Future; awaiting that object raises    *)
(*     TypeError at once, which start()'s "except Exception" logs;         *)
(*   - paho calls on_connect / on_message / on_disconnect from loop(), and *)
(*     re-raises an exception of a callback out of loop()                  *)
(*     (suppress_exceptions is off by default);                            *)
(*   - paho's disconnect() writes the DISCONNECT packet, reports the       *)
(*     disconnect with rc = 0 and closes the socket;                       *)
(*   - asyncio.Event.set() marks every waiter's future done; the waiting   *)
(*     coroutine resumes in a later iteration of the event loop and does   *)
(*     not test the event again.                                           *)
(***************************************************************************)
EXTENDS Integers, Naturals, Sequences, FiniteSets, TLC

(***************************************************************************)
(* Bounds of the model.                                                    *)
(***************************************************************************)
\* successful start() calls, each of which schedules one _background_loop task
MaxStarts == 2
\* events the broker has sent that client.loop() has not yet read
MaxInbox == 2
\* inbound messages the broker sends in one run
MaxMsgs == 2

Ticks == 1..MaxStarts

(***************************************************************************)
(* Inputs of publish().                                                    *)
(***************************************************************************)
\* qos: Optional[int] = None (line 148); None is written -1
NoQos == -1
QosLevels == {0, 1, 2}
QosArgs == {NoQos, 0, 1}
\* a topic paho accepts and one it rejects with ValueError (a wildcard)
GoodTopic == "x/y"
BadTopic == "x/#"
Topics == {GoodTopic, BadTopic}
\* the topic filters main() configures (src/main.py:13-14, 116)
StateTopic == "light/state"
CommandTopic == "light/set"
\* config.subscribe_topics: the default, an empty list (line 31), and the
\* list of main()
TopicLists == {<<>>, <<StateTopic, CommandTopic>>}
\* the values inside a mapping or sequence: a str, an int (its decimal
\* digits), and a value json.dumps cannot encode (a set, a datetime, ...)
PyStr(s) == [py |-> "str", s |-> s]
PyInt(d) == [py |-> "int", s |-> d]
NotJson == [py |-> "set", s |-> ""]
\* payload: Any (line 148): "ON", b"ON", {"state": "OFF"}, ["ON", 1],
\* {1: "ON"}, {"state": {1}}
StrPayload == [type |-> "str", val |-> <<"ON">>]
BytesPayload == [type |-> "bytes", val |-> <<"ON">>]
DictPayload == [type |-> "dict", val |-> <<PyStr("state"), PyStr("OFF")>>]
ListPayload == [type |-> "list", val |-> <<PyStr("ON"), PyInt("1")>>]
IntKeyPayload == [type |-> "dict", val |-> <<PyInt("1"), PyStr("ON")>>]
BadDictPayload == [type |-> "dict", val |-> <<PyStr("state"), NotJson>>]
Payloads == {StrPayload, BytesPayload, DictPayload, ListPayload, IntKeyPayload,
             BadDictPayload}
Args(topic, payload, qos, retain) ==
    [topic |-> topic, payload |-> payload, qos |-> qos, retain |-> retain]
\* the calls made: each argument varied, and main's call of src/main.py:133
PublishArgs ==
    { Args(GoodTopic, StrPayload, NoQos, FALSE),
      Args(GoodTopic, BytesPayload, 0, FALSE),
      Args(GoodTopic, ListPayload, 1, TRUE),
      Args(GoodTopic, DictPayload, NoQos, TRUE),
      Args(GoodTopic, DictPayload, 0, TRUE),
      Args(GoodTopic, IntKeyPayload, NoQos, FALSE),
      Args(GoodTopic, BadDictPayload, NoQos, FALSE),
      Args(BadTopic, StrPayload, NoQos, FALSE) }
NoArgs == [topic |-> "", payload |-> [type |-> "str", val |-> <<>>],
           qos |-> NoQos, retain |-> FALSE]

\* the coroutine that calls publish(): main() (src/main.py:133) or the
\* toggle button's handler (src/main.py:105)
Callers == {"main"}

VARIABLES
    \* ---- FletMQTTClient's state
    isRunning,      \* self._is_running
    connected,      \* self.connected_event (asyncio.Event): its flag
    cfgQos,         \* self.config.qos
    cfgTopics,      \* self.config.subscribe_topics
    subs,           \* the client.subscribe calls made on the connection
    \* ---- the paho client and the broker
    link,           \* the client's session: none, connecting, up, refused
    inbox,          \* what the broker has sent and loop() has not yet read
    \* ---- the _background_loop tasks
    tickPc,         \* per task: none, new, loop0, loop1, sleep, done, crashed
    \* ---- the publish() calls
    pubPc,          \* per caller: idle, waiting, woken, sent, timedout, raised
    pubArgs,        \* per caller: the arguments of its current call
    sends,          \* per caller: client.publish calls of its current call
    \* ---- the start() call that is returning to its caller
    startExit,      \* no (none is), or the path it ended through: warn
                    \* (line 127), connect_error (134-135), await_error
                    \* (136-137)
    \* ---- what has happened (history, read by the properties only)
    starts,         \* start() calls that connected and set the running flag
    msgCount,       \* on_message callbacks paho has made
    handlerCalls,   \* calls of self.on_message_handler
    handled,        \* the messages the handler has run on, numbered as
                    \* delivered
    raisedCount,    \* handler calls that raised
    escaped,        \* errors that left _on_message_internal
    ackedSince      \* a successful connect acknowledgement has been processed
                    \* and no start(), disconnect event or stop() after it

clientVars == <<isRunning, connected, cfgQos, cfgTopics>>
netVars == <<link, inbox>>
pubVars == <<pubPc, pubArgs, sends>>
msgVars == <<msgCount, handlerCalls, handled, raisedCount, escaped>>
histVars == <<starts, ackedSince, subs>>
vars == <<isRunning, connected, cfgQos, cfgTopics, subs, link, inbox, tickPc,
          pubPc, pubArgs, sends, startExit, starts, msgCount, handlerCalls,
          handled, raisedCount, escaped, ackedSince>>

TickStates == {"none", "new", "loop0", "loop1", "sleep", "done", "crashed"}
LiveStates == {"new", "loop0", "loop1", "sleep"}
PubStates == {"idle", "waiting", "woken", "sent", "timedout", "raised"}
Events == {"ack_ok", "ack_fail", "msg", "badmsg", "lost"}

LiveTicks == {t \in Ticks : tickPc[t] \in LiveStates}
\* a task is inside client.loop(): nothing else runs until it returns
InLoop == \E t \in Ticks : tickPc[t] \in {"loop0", "loop1"}
\* start() has not suspended and is returning: its caller runs next
Returning == startExit # "no"
\* the event loop is between two steps of its coroutines
Idle == ~InLoop /\ ~Returning

\* __init__ (lines 54-66): the event is clear, the client is not running
Init ==
    /\ isRunning = FALSE
    /\ connected = FALSE
    /\ cfgQos \in {0, 1}
    /\ cfgTopics \in TopicLists
    /\ subs = <<>>
    /\ link = "none"
    /\ inbox = <<>>
    /\ tickPc = [t \in Ticks |-> "none"]
    /\ pubPc = [p \in Callers |-> "idle"]
    /\ pubArgs = [p \in Callers |-> NoArgs]
    /\ sends = [p \in Callers |-> <<>>]
    /\ startExit = "no"
    /\ starts = 0
    /\ msgCount = 0
    /\ handlerCalls = 0
    /\ handled = <<>>
    /\ raisedCount = 0
    /\ escaped = 0
    /\ ackedSince = FALSE


(***************************************************************************)
(* The paho callbacks.  Each runs inside client.loop() of task t, on the   *)
(* event at the head of the inbox.                                         *)
(***************************************************************************)
Delivering(t, e) ==
    /\ tickPc[t] \in {"loop0", "loop1"}
    /\ inbox # <<>>
    /\ Head(inbox) = e

\* asyncio.Event.set(): the flag is set and every waiter is marked to resume
WakeWaiters ==
    [p \in Callers |-> IF pubPc[p] = "waiting" THEN "woken" ELSE pubPc[p]]

\* client.subscribe called without its qos argument
SubscribeCalls_NoQos ==
    [i \in 1..Len(cfgTopics) |-> [topic |-> cfgTopics[i], qos |-> 0]]

\* the loop of lines 92-95: one client.subscribe(topic, qos=config.qos) for
\* each configured topic, in the order of the list
SubscribeCalls ==
    [i \in 1..Len(cfgTopics) |-> [topic |-> cfgTopics[i], qos |-> cfgQos]]

\* _on_connect (lines 87-98)
OnConnect(t, rc) ==
    /\ Delivering(t, IF rc = 0 THEN "ack_ok" ELSE "ack_fail")
    /\ inbox' = Tail(inbox)
    /\ tickPc' = [tickPc EXCEPT ![t] = "loop1"]
    /\ IF rc = 0
          THEN /\ connected' = TRUE
               /\ pubPc' = WakeWaiters
               /\ ackedSince' = TRUE
               /\ subs' = subs \o SubscribeCalls
          ELSE /\ connected' = FALSE
               /\ UNCHANGED <<pubPc, ackedSince, subs>>
    /\ UNCHANGED <<isRunning, cfgQos, cfgTopics, link, pubArgs, sends,
                   startExit, msgVars, starts>>

\* the handler calls put on a stack, the latest run first
HandlerCall_Stacked(done, m) == <<m>> \o done

\* self.on_message_handler(msg) (line 104) is an ordinary call: the handler
\* has run to its end, on message m, when the callback goes on
HandlerCall(done, m) == Append(done, m)

\* the handler called without the try/except
HandlerErrorEscapes_NoTry(raises) == raises

\* the try/except around the handler call (lines 103-106): an error of the
\* handler does not leave _on_message_internal
HandlerErrorEscapes(raises) == FALSE

\* _on_message_internal (lines 100-106).  decodable: msg.payload.decode()
\* succeeds (line 102, outside the try); raises: the handler raises.
OnMessageInternal(t, decodable, raises) ==
    /\ Delivering(t, IF decodable THEN "msg" ELSE "badmsg")
    /\ inbox' = Tail(inbox)
    /\ msgCount' = msgCount + 1
    /\ IF ~decodable
          THEN \* line 102 raises UnicodeDecodeError: the handler is not
               \* called and the error leaves the callback and loop()
               /\ escaped' = escaped + 1
               /\ tickPc' = [tickPc EXCEPT ![t] = "crashed"]
               /\ UNCHANGED <<handlerCalls, handled, raisedCount>>
          ELSE /\ handlerCalls' = handlerCalls + 1
               /\ handled' = HandlerCall(handled, msgCount + 1)
               /\ raisedCount' = raisedCount + (IF raises THEN 1 ELSE 0)
               /\ IF HandlerErrorEscapes(raises)
                     THEN /\ escaped' = escaped + 1
                          /\ tickPc' = [tickPc EXCEPT ![t] = "crashed"]
                     ELSE /\ escaped' = escaped
                          /\ tickPc' = [tickPc EXCEPT ![t] = "loop1"]
    /\ UNCHANGED <<clientVars, link, pubVars, startExit, histVars>>

\* _on_disconnect without line 110
OnDisconnect_NoClear(t, rc) ==
    /\ Delivering(t, "lost")
    /\ inbox' = Tail(inbox)
    /\ tickPc' = [tickPc EXCEPT ![t] = "loop1"]
    /\ ackedSince' = FALSE
    /\ subs' = <<>>
    /\ UNCHANGED <<clientVars, link, pubVars, startExit, msgVars, starts>>

\* _on_disconnect that asks for the connection again when rc # 0
OnDisconnect_Reconnects(t, rc) ==
    /\ Delivering(t, "lost")
    /\ inbox' = Tail(inbox)
    /\ tickPc' = [tickPc EXCEPT ![t] = "loop1"]
    /\ connected' = FALSE
    /\ ackedSince' = FALSE
    /\ subs' = <<>>
    /\ link' = IF rc = 0 THEN link ELSE "connecting"
    /\ UNCHANGED <<isRunning, cfgQos, cfgTopics, pubVars, startExit, msgVars,
                   starts>>

\* _on_disconnect (lines 108-112): clears the event whatever rc is
OnDisconnect(t, rc) ==
    /\ Delivering(t, "lost")
    /\ inbox' = Tail(inbox)
    /\ tickPc' = [tickPc EXCEPT ![t] = "loop1"]
    /\ connected' = FALSE
    /\ ackedSince' = FALSE
    /\ subs' = <<>>
    /\ UNCHANGED <<isRunning, cfgQos, cfgTopics, link, pubVars, startExit,
                   msgVars, starts>>

(***************************************************************************)
(* _background_loop (lines 114-121).                                       *)
(***************************************************************************)
\* the while test (line 117), on the task's first run and after each sleep;
\* if it holds the task calls client.loop() (line 119)
LoopTest(t) ==
    /\ Idle
    /\ tickPc[t] \in {"new", "sleep"}
    /\ tickPc' = [tickPc EXCEPT ![t] = IF isRunning THEN "loop0" ELSE "done"]
    /\ UNCHANGED <<clientVars, netVars, pubVars, startExit, msgVars, histVars>>

\* client.loop() returns and the task sleeps (line 120).  loop() reads what
\* the socket holds: it does not return with nothing read while the inbox
\* is not empty.
LoopReturn(t) ==
    /\ \/ tickPc[t] = "loop1"
       \/ tickPc[t] = "loop0" /\ inbox = <<>>
    /\ tickPc' = [tickPc EXCEPT ![t] = "sleep"]
    /\ UNCHANGED <<clientVars, netVars, pubVars, startExit, msgVars, histVars>>

(***************************************************************************)
(* start() and stop() (lines 123-146): neither suspends.                   *)
(***************************************************************************)
\* start() on a running client that clears the event before the test
StartNoop_ClearsFirst ==
    /\ Idle
    /\ isRunning
    /\ startExit' = "warn"
    /\ connected' = FALSE
    /\ UNCHANGED <<isRunning, cfgQos, cfgTopics, netVars, tickPc, pubVars,
                   msgVars, histVars>>

\* start() while running: the warning and the return (lines 125-127)
StartNoop ==
    /\ Idle
    /\ isRunning
    /\ startExit' = "warn"
    /\ UNCHANGED <<clientVars, netVars, tickPc, pubVars, msgVars, histVars>>

\* start(), client.connect raises (lines 130-131, 134-137)
StartConnectFails ==
    /\ Idle
    /\ ~isRunning
    /\ startExit' = "connect_error"
    /\ connected' = FALSE
    /\ ackedSince' = FALSE
    /\ subs' = <<>>
    /\ link' = "none"
    /\ inbox' = <<>>
    /\ UNCHANGED <<isRunning, cfgQos, cfgTopics, tickPc, pubVars, msgVars,
                   starts>>

\* start() that schedules no new task when one was scheduled before
StartConnects_NoNewTask ==
    /\ Idle
    /\ ~isRunning
    /\ starts < MaxStarts
    /\ startExit' = "await_error"
    /\ connected' = FALSE
    /\ ackedSince' = FALSE
    /\ subs' = <<>>
    /\ link' = "connecting"
    /\ inbox' = <<>>
    /\ isRunning' = TRUE
    /\ starts' = starts + 1
    /\ tickPc' = IF starts = 0 THEN [tickPc EXCEPT ![1] = "new"] ELSE tickPc
    /\ UNCHANGED <<cfgQos, cfgTopics, pubVars, msgVars>>

\* start() that sets the flag only after the await of line 133
StartConnects_FlagAfterAwait ==
    /\ Idle
    /\ ~isRunning
    /\ starts < MaxStarts
    /\ startExit' = "await_error"
    /\ connected' = FALSE
    /\ ackedSince' = FALSE
    /\ subs' = <<>>
    /\ link' = "connecting"
    /\ inbox' = <<>>
    /\ starts' = starts + 1
    /\ tickPc' = [tickPc EXCEPT ![starts + 1] = "new"]
    /\ UNCHANGED <<isRunning, cfgQos, cfgTopics, pubVars, msgVars>>

\* start(), client.connect returns (lines 130-133): the flag is set and
\* page.run_task schedules a new _background_loop task; the await raises
\* TypeError, which line 136 catches and line 137 logs
StartConnects ==
    /\ Idle
    /\ ~isRunning
    /\ starts < MaxStarts
    /\ startExit' = "await_error"
    /\ connected' = FALSE
    /\ ackedSince' = FALSE
    /\ subs' = <<>>
    /\ link' = "connecting"
    /\ inbox' = <<>>
    /\ isRunning' = TRUE
    /\ starts' = starts + 1
    /\ tickPc' = [tickPc EXCEPT ![starts + 1] = "new"]
    /\ UNCHANGED <<cfgQos, cfgTopics, pubVars, msgVars>>

Start == StartNoop \/ StartConnectFails \/ StartConnects

\* stop() while not running (lines 141-142)
StopNoop ==
    /\ Idle
    /\ ~isRunning
    /\ UNCHANGED vars

\* stop() that sets the event to release the waiting publish() calls
StopRunning_WakesWaiters ==
    /\ Idle
    /\ isRunning
    /\ isRunning' = FALSE
    /\ link' = "none"
    /\ inbox' = <<>>
    /\ connected' = FALSE
    /\ ackedSince' = FALSE
    /\ subs' = <<>>
    /\ pubPc' = WakeWaiters
    /\ UNCHANGED <<cfgQos, cfgTopics, tickPc, pubArgs, sends, startExit,
                   msgVars, starts>>

\* stop() without line 146
StopRunning_KeepsEvent ==
    /\ Idle
    /\ isRunning
    /\ isRunning' = FALSE
    /\ link' = "none"
    /\ inbox' = <<>>
    /\ ackedSince' = FALSE
    /\ subs' = <<>>
    /\ UNCHANGED <<connected, cfgQos, cfgTopics, tickPc, pubVars, startExit,
                   msgVars, starts>>

\* stop() (lines 143-146).  client.disconnect() ends the session (paho
\* reports it to _on_disconnect with rc = 0, which clears the event as line
\* 146 does).
StopRunning ==
    /\ Idle
    /\ isRunning
    /\ isRunning' = FALSE
    /\ link' = "none"
    /\ inbox' = <<>>
    /\ connected' = FALSE
    /\ ackedSince' = FALSE
    /\ subs' = <<>>
    /\ UNCHANGED <<cfgQos, cfgTopics, tickPc, pubVars, startExit, msgVars,
                   starts>>

Stop == StopNoop \/ StopRunning

(***************************************************************************)
(* publish() (lines 148-168).                                              *)
(***************************************************************************)
\* json.dumps raises TypeError on a value it cannot encode
JsonSerializable(payload) ==
    payload.type \in {"dict", "list"} =>
        \A i \in 1..Len(payload.val) : payload.val[i] # NotJson

Quote(s) == <<"\"", s, "\"">>

\* json.dumps of a value inside: a str in quotes, an int as its digits
DumpValue(v) == IF v.py = "str" THEN Quote(v.s) ELSE <<v.s>>

\* json.dumps of the items of a list: the values, ", " between them
RECURSIVE DumpItems(_)
DumpItems(vs) ==
    IF vs = <<>> THEN <<>>
    ELSE IF Len(vs) = 1 THEN DumpValue(vs[1])
    ELSE DumpValue(vs[1]) \o <<", ">> \o DumpItems(Tail(vs))

\* json.dumps (line 159) of a one-key mapping, {"key": value}, whose key is
\* written as a string whatever it is, and of a list, [value, value]
JsonDumps(payload) ==
    IF payload.type = "dict"
       THEN <<"{">> \o Quote(payload.val[1].s) \o <<": ">>
                \o DumpValue(payload.val[2]) \o <<"}">>
       ELSE <<"[">> \o DumpItems(payload.val) \o <<"]">>

\* json.loads of the text of one value, at the head of toks: a string
\* between quotes, else a number
LoadValue(toks) ==
    IF toks[1] = "\"" THEN PyStr(toks[2]) ELSE PyInt(toks[1])
\* what follows that value
AfterValue(toks) ==
    IF toks[1] = "\"" THEN SubSeq(toks, 4, Len(toks))
    ELSE SubSeq(toks, 2, Len(toks))

\* json.loads of the items of a list, up to its "]"
RECURSIVE LoadItems(_)
LoadItems(toks) ==
    IF toks[1] = "]" THEN <<>>
    ELSE IF toks[1] = ", " THEN LoadItems(Tail(toks))
    ELSE <<LoadValue(toks)>> \o LoadItems(AfterValue(toks))

\* json.loads: the value a JSON text stands for
JsonLoads(text) ==
    IF text[1] = "{"
       THEN [type |-> "dict",
             val |-> <<LoadValue(Tail(text)),
                       LoadValue(Tail(AfterValue(Tail(text))))>>]
       ELSE [type |-> "list", val |-> LoadItems(Tail(text))]

\* "isinstance(payload, dict)" alone
WirePayload_DictOnly(payload) ==
    IF payload.type = "dict"
       THEN [type |-> "str", val |-> JsonDumps(payload)]
       ELSE payload

\* lines 158-159
WirePayload(payload) ==
    IF payload.type \in {"dict", "list"}
       THEN [type |-> "str", val |-> JsonDumps(payload)]
       ELSE payload

\* "qos or self.config.qos": an explicit 0 falls back to the default
ResolveQos_Falsy(qos) == IF qos # NoQos /\ qos # 0 THEN qos ELSE cfgQos

\* line 161
ResolveQos(qos) == IF qos # NoQos THEN qos ELSE cfgQos

\* paho's publish raises ValueError on a topic with a wildcard
TopicValid(topic) == topic = GoodTopic

\* lines 158-168, which run without suspending once the wait has returned;
\* sent: the client.publish calls this publish() call has made so far
SendNow(p, a, sent) ==
    IF a.payload.type \in {"dict", "list"} /\ ~JsonSerializable(a.payload)
       THEN \* json.dumps raises (line 159): nothing catches it
            /\ pubPc' = [pubPc EXCEPT ![p] = "raised"]
            /\ sends' = [sends EXCEPT ![p] = sent]
       ELSE /\ sends' = [sends EXCEPT ![p] = Append(sent,
                            [topic |-> a.topic,
                             payload |-> WirePayload(a.payload),
                             qos |-> ResolveQos(a.qos),
                             retain |-> a.retain])]
            /\ pubPc' = [pubPc EXCEPT ![p] =
                            IF ~TopicValid(a.topic) THEN "raised" ELSE "sent"]

\* publish() from its first line: with the event set, wait() returns
\* without suspending and the call runs to its end; with the event clear
\* the call waits (line 153)
PublishBegin(p, a) ==
    /\ pubPc[p] \in {"idle", "sent", "timedout", "raised"}
    /\ pubArgs' = [pubArgs EXCEPT ![p] = a]
    /\ IF connected
          THEN SendNow(p, a, <<>>)
          ELSE /\ pubPc' = [pubPc EXCEPT ![p] = "waiting"]
               /\ sends' = [sends EXCEPT ![p] = <<>>]
    /\ UNCHANGED <<clientVars, netVars, tickPc, msgVars, histVars>>

\* publish() is called (line 148)
PublishCall(p, a) ==
    /\ Idle
    /\ PublishBegin(p, a)
    /\ UNCHANGED startExit

\* a call that an Event.set() has woken resumes after line 153
PublishResume(p) ==
    /\ Idle
    /\ pubPc[p] = "woken"
    /\ SendNow(p, pubArgs[p], sends[p])
    /\ UNCHANGED <<clientVars, netVars, tickPc, pubArgs, startExit, msgVars,
                   histVars>>

\* the timeout handler without its return (line 156)
PublishTimeout_FallsThrough(p) ==
    /\ Idle
    /\ pubPc[p] = "waiting"
    /\ pubPc' = [pubPc EXCEPT ![p] = "timedout"]
    /\ sends' = [sends EXCEPT ![p] = Append(@,
                    [topic |-> pubArgs[p].topic,
                     payload |-> WirePayload(pubArgs[p].payload),
                     qos |-> ResolveQos(pubArgs[p].qos),
                     retain |-> pubArgs[p].retain])]
    /\ UNCHANGED <<clientVars, netVars, tickPc, pubArgs, startExit, msgVars,
                   histVars>>

\* the 5 seconds pass with the event still clear (lines 154-156)
PublishTimeout(p) ==
    /\ Idle
    /\ pubPc[p] = "waiting"
    /\ pubPc' = [pubPc EXCEPT ![p] = "timedout"]
    /\ UNCHANGED <<clientVars, netVars, tickPc, pubArgs, sends, startExit,
                   msgVars, histVars>>

(***************************************************************************)
(* The caller of start() (src/main.py:130-133): start() has returned      *)
(* without suspending, and the caller's next statement runs.              *)
(***************************************************************************)
\* main's call (src/main.py:133): publish(STATE_TOPIC, {"state": "OFF"},
\* retain=True)
MainArgs == Args(GoodTopic, DictPayload, NoQos, TRUE)

\* main() goes on to its publish() call, however start() ended
PublishAfterStart(p) ==
    /\ Returning
    /\ startExit' = "no"
    /\ PublishBegin(p, MainArgs)

\* another caller of start() goes on without publishing
StartReturns ==
    /\ Returning
    /\ startExit' = "no"
    /\ UNCHANGED <<clientVars, netVars, tickPc, pubVars, msgVars, histVars>>

(***************************************************************************)
(* The broker.                                                             *)
(***************************************************************************)
IsMsg(e) == e \in {"msg", "badmsg"}
PendingMsgs == Cardinality({i \in 1..Len(inbox) : IsMsg(inbox[i])})

\* the broker answers the connect request
BrokerConnack(ok) ==
    /\ Idle
    /\ link = "connecting"
    /\ Len(inbox) < MaxInbox
    /\ inbox' = Append(inbox, IF ok THEN "ack_ok" ELSE "ack_fail")
    /\ link' = IF ok THEN "up" ELSE "refused"
    /\ UNCHANGED <<clientVars, tickPc, pubVars, startExit, msgVars, histVars>>

\* a message on a subscribed topic arrives
BrokerMessage(decodable) ==
    /\ Idle
    /\ link = "up"
    /\ Len(inbox) < MaxInbox
    /\ msgCount + PendingMsgs < MaxMsgs
    /\ inbox' = Append(inbox, IF decodable THEN "msg" ELSE "badmsg")
    /\ UNCHANGED <<clientVars, link, tickPc, pubVars, startExit, msgVars,
                   histVars>>

\* the connection drops
LinkLost ==
    /\ Idle
    /\ link \in {"connecting", "up", "refused"}
    /\ Len(inbox) < MaxInbox
    /\ inbox' = Append(inbox, "lost")
    /\ link' = "none"
    /\ UNCHANGED <<clientVars, tickPc, pubVars, startExit, msgVars, histVars>>

(***************************************************************************)
(* The specification.                                                      *)
(***************************************************************************)
TickNext(t) ==
    \/ LoopTest(t)
    \/ LoopReturn(t)
    \/ \E rc \in {0, 5} : OnConnect(t, rc)
    \/ \E decodable, raises \in BOOLEAN :
          OnMessageInternal(t, decodable, raises)
    \/ OnDisconnect(t, 7)

Next ==
    \/ Start
    \/ Stop
    \/ \E t \in Ticks : TickNext(t)
    \/ \E p \in Callers, a \in PublishArgs : PublishCall(p, a)
    \/ \E p \in Callers : PublishResume(p)
    \/ \E p \in Callers : PublishTimeout(p)
    \/ \E p \in Callers : PublishAfterStart(p)
    \/ StartReturns
    \/ \E ok \in BOOLEAN : BrokerConnack(ok)
    \/ \E decodable \in BOOLEAN : BrokerMessage(decodable)
    \/ LinkLost

Spec == Init /\ [][Next]_vars

\* the client as main() configures it (src/main.py:114-117): the default QoS
\* and the two topic filters
MainInit == Init /\ cfgQos = 0 /\ cfgTopics = <<StateTopic, CommandTopic>>

\* the publish() calls of the application: main's (src/main.py:133) and the
\* toggle button's (src/main.py:105-108)
MainCalls == {MainArgs, Args(GoodTopic, DictPayload, NoQos, FALSE)}

\* the steps of the application: those of Next, with its publish() calls
MainNext ==
    \/ Start
    \/ Stop
    \/ \E t \in Ticks : TickNext(t)
    \/ \E p \in Callers, a \in MainCalls : PublishCall(p, a)
    \/ \E p \in Callers : PublishResume(p)
    \/ \E p \in Callers : PublishTimeout(p)
    \/ \E p \in Callers : PublishAfterStart(p)
    \/ StartReturns
    \/ \E ok \in BOOLEAN : BrokerConnack(ok)
    \/ \E decodable \in BOOLEAN : BrokerMessage(decodable)
    \/ LinkLost

\* the event loop runs the tasks that are ready in turn: a _background_loop
\* task that is ready again and again (asyncio.sleep(0.1) returns,
\* client.loop() returns) is run, whatever start() calls run in between; and a start() that
\* has not suspended returns to its caller, which runs on
FairSpec ==
    /\ MainInit
    /\ [][MainNext]_vars
    /\ SF_vars(\E t \in Ticks : TickNext(t))
    /\ WF_vars(StartReturns \/ \E p \in Callers : PublishAfterStart(p))

TypeOK ==
    /\ isRunning \in BOOLEAN
    /\ connected \in BOOLEAN
    /\ cfgQos \in QosLevels
    /\ cfgTopics \in TopicLists
    /\ subs \in Seq([topic : {StateTopic, CommandTopic}, qos : QosLevels])
    /\ link \in {"none", "connecting", "up", "refused"}
    /\ inbox \in Seq(Events) /\ Len(inbox) <= MaxInbox
    /\ tickPc \in [Ticks -> TickStates]
    /\ pubPc \in [Callers -> PubStates]
    /\ PublishArgs \subseteq
          [topic : Topics, payload : Payloads, qos : QosArgs, retain : BOOLEAN]
    /\ \A p \in Callers : pubArgs[p] \in PublishArgs \cup {NoArgs}
    /\ \A p \in Callers : Len(sends[p]) <= 1
    /\ \A t \in Ticks : tickPc[t] # "none" <=> t <= starts
    /\ startExit \in {"no", "warn", "connect_error", "await_error"}
    /\ starts \in 0..MaxStarts
    /\ msgCount \in 0..MaxMsgs
    /\ handlerCalls \in 0..MaxMsgs
    /\ handled \in Seq(1..MaxMsgs)
    /\ raisedCount \in 0..MaxMsgs
    /\ escaped \in 0..MaxMsgs
    /\ ackedSince \in BOOLEAN

(***************************************************************************)
(* Properties.                                                             *)
(***************************************************************************)
\* the calls that got past the wait of line 153
PastWait(p) == pubPc[p] \in {"sent", "raised"}
\* tasks that have begun to run and have not ended
StartedTicks == {t \in Ticks : tickPc[t] \in {"loop0", "loop1", "sleep"}}

\* a step in which the publish() call of p calls client.publish
CallsSend(p) == sends'[p] # sends[p] /\ sends'[p] # <<>>

\* C1: whenever publish() calls client.publish, the connected condition is
\* true at that moment, in every interleaving with the callbacks and stop().
C1_SendOnlyWhileConnected ==
    [][\A p \in Callers : CallsSend(p) => connected]_vars

\* C2: the connected condition is true only if a successful connect
\* acknowledgement has been processed since the last start() that began a
\* session, with no disconnect event and no stop() after it; and only the
\* on-connect callback with rc = 0 changes it from false to true.
C2_ConnectedOnlyAfterAck ==
    /\ [](connected => ackedSince)
    /\ [][(~connected /\ connected') => \E t \in Ticks : OnConnect(t, 0)]_vars
C2_Witness == connected /\ ackedSince /\ starts = 2

\* C3: after stop() and then start(), once the broker's successful
\* acknowledgement has arrived the connected condition becomes true again
\* (unless stop() is called once more before), and a publish() called while
\* it is true calls client.publish.
RestartedSession == starts >= 2 /\ isRunning
AckOkPending == \E i \in 1..Len(inbox) : inbox[i] = "ack_ok"
C3_RestartReconnects ==
    /\ (RestartedSession /\ AckOkPending) ~> (connected \/ ~isRunning)
    /\ [][\A p \in Callers :
            (/\ RestartedSession
             /\ connected
             /\ \E a \in PublishArgs :
                    JsonSerializable(a.payload) /\ PublishCall(p, a))
            => Len(sends'[p]) = 1]_vars
C3_Witness ==
    /\ RestartedSession
    /\ connected
    /\ \E p \in Callers : pubPc[p] = "sent" /\ Len(sends[p]) = 1

\* C4: at most one background task is live at any time.
C4_SingleTick == Cardinality(StartedTicks) <= 1

\* the live tasks that were live when a stop() ran: those of an earlier
\* session, and all of them while the client is stopped
StoppedTicks == {t \in LiveTicks : t < starts \/ ~isRunning}

\* C5: a task that was live when stop() ran calls client.loop() no more: its
\* next while test ends it.
C5_NoLoopAfterStop ==
    [][\A t \in StoppedTicks : LoopTest(t) => tickPc'[t] = "done"]_vars

\* C6: no start(), stop() or publish() call ends by raising to its caller.
C6_NothingRaised == \A p \in Callers : pubPc[p] # "raised"

\* C7: while every inbound message so far has made the handler raise, the
\* handler has been called once per message, no error has left the
\* on-message callback and no background task has died.
C7_RaisingHandlerKeepsTick ==
    (raisedCount = msgCount) =>
        /\ handlerCalls = msgCount
        /\ escaped = 0
        /\ \A t \in Ticks : tickPc[t] # "crashed"
C7_Witness ==
    /\ msgCount = MaxMsgs
    /\ raisedCount = MaxMsgs
    /\ StartedTicks # {}

\* C8: for every inbound message, whatever its payload bytes, the handler
\* is called exactly once and nothing is raised out of the on-message
\* callback.
C8_EveryMessageDispatched == handlerCalls = msgCount /\ escaped = 0

\* C9: a publish() whose wait timed out has not called client.publish, and
\* does not when a connection is established later.
C9_TimedOutNeverSends ==
    \A p \in Callers : pubPc[p] = "timedout" => sends[p] = <<>>
C9_Witness ==
    \E p \in Callers : pubPc[p] = "timedout" /\ connected

\* what C10 says client.publish is called with
SentAsAsked(p) ==
    /\ Len(sends[p]) = 1
    /\ sends[p][1].topic = pubArgs[p].topic
    /\ sends[p][1].retain = pubArgs[p].retain
    /\ sends[p][1].qos =
          IF pubArgs[p].qos \in QosLevels THEN pubArgs[p].qos ELSE cfgQos

C11_SubscribesPerAck ==
    IF ackedSince
       THEN /\ Len(subs) = Len(cfgTopics)
            /\ \A i \in 1..Len(cfgTopics) :
                  subs[i].topic = cfgTopics[i] /\ subs[i].qos = cfgQos
       ELSE subs = <<>>
C11_Witness ==
    /\ ackedSince
    /\ Len(subs) = 2
    /\ subs[1].topic # subs[2].topic
    /\ cfgQos = 1

\* start() has just ended through one of its paths that log an error
StartFailed == startExit \in {"connect_error", "await_error"}

\* C12: when start() ends through a path that caught and logged an error,
\* the running flag is false and no background task is scheduled or alive.
C12_FailedStartNotRunning == StartFailed => (~isRunning /\ LiveTicks = {})

\* C13: a start() on a running client requests no connection, schedules no
\* task and leaves the running flag and the connected condition as they
\* were.
C13_StartWhileRunningNoop ==
    [][(isRunning /\ startExit' # "no") =>
          /\ startExit' = "warn"
          /\ UNCHANGED <<isRunning, connected, link, inbox, tickPc,
                         starts>>]_vars
C13_Witness == startExit = "warn" /\ connected

\* a step in which the publish() call of p stops waiting
EndsWait(p) == pubPc[p] = "waiting" /\ pubPc'[p] # "waiting"

\* C14: stop() leaves a waiting publish() waiting; the wait ends only by its
\* own timeout, and then client.publish is not called, or by a successful
\* connect acknowledgement.
C14_StopKeepsWaiters ==
    [][\A p \in Callers :
          /\ (pubPc[p] = "waiting" /\ isRunning /\ ~isRunning')
                => pubPc'[p] = "waiting"
          /\ EndsWait(p) =>
                \/ pubPc'[p] = "timedout" /\ sends'[p] = <<>>
                \/ pubPc'[p] = "woken" /\ \E t \in Ticks : OnConnect(t, 0)]_vars
C14_Witness ==
    \E p \in Callers : pubPc[p] = "waiting" /\ ~isRunning /\ starts >= 1

\* a step in which the client asks paho for a connection
ConnectRequest ==
    link' = "connecting" /\ (link # "connecting" \/ starts' # starts)

\* C15: a disconnect event with rc # 0 and a failed connect acknowledgement
\* leave the connected condition false and the running flag set, and no
\* connection is requested but by a start() on a client that is not running
\* (one that stop() has stopped - a start() before that is a no-op).
C15_NoReconnect ==
    [][/\ (\E t \in Ticks : OnDisconnect(t, 7) \/ OnConnect(t, 5))
            => (~connected' /\ isRunning' /\ ~ConnectRequest)
       /\ ConnectRequest => (~isRunning /\ startExit' = "await_error")
       /\ (isRunning /\ startExit' # "no") => ~ConnectRequest]_vars
C15_Witness ==
    /\ startExit = "warn"
    /\ ~connected
    /\ link = "none"
    /\ inbox = <<>>
    /\ \E t \in Ticks : tickPc[t] = "sleep"

\* C18: in every reachable state the connected condition is true only if
\* the running flag is set.
C18_ConnectedImpliesRunning == connected => isRunning
C18_Witness ==
    /\ ~isRunning
    /\ ~connected
    /\ starts >= 1
    /\ \E p \in Callers : pubPc[p] = "sent"

\* C19: a start() whose connect request succeeded returns with the running
\* flag set and its task scheduled and not yet run, the caller runs on, and
\* a publish() it issues next is called on a running client.
C19_StartReturnsRunning ==
    /\ [](startExit = "await_error" =>
            isRunning /\ starts >= 1 /\ tickPc[starts] = "new")
    /\ [][(startExit = "await_error" /\ \E p \in Callers : PublishAfterStart(p))
            => (isRunning' /\ \E p \in Callers :
                    pubPc'[p] = "waiting" /\ pubArgs'[p] = MainArgs)]_vars
    /\ (startExit = "await_error") ~> (startExit = "no" /\ isRunning)
C19_Witness ==
    /\ isRunning
    /\ startExit = "no"
    /\ \E p \in Callers : pubPc[p] = "waiting" /\ pubArgs[p] = MainArgs
    /\ tickPc[1] = "new"

\* C16: the handler runs on the inbound messages in the order of their
\* delivery, one call ending before the next begins: it has run on a
\* message when the callback that delivered it ends (also if it raised),
\* so the messages it has run on are in increasing order of delivery.
C16_HandlerInDeliveryOrder ==
    /\ [](\A i, j \in 1..Len(handled) : i < j => handled[i] < handled[j])
    /\ [][(inbox # <<>> /\ Head(inbox) = "msg" /\ msgCount' = msgCount + 1)
            => handled' = Append(handled, msgCount + 1)]_vars
C16_Witness == handled = <<1, 2>> /\ raisedCount = 2

\* what client.publish was called with last by the publish() call of p
Wire(p) == sends[p][Len(sends[p])].payload

\* a mapping or sequence goes out as a JSON text that parses back to it, a
\* str or bytes goes out as it is
HandedOver(p) ==
    IF pubArgs[p].payload.type \in {"dict", "list"}
       THEN /\ Wire(p).type = "str"
            /\ JsonLoads(Wire(p).val) = pubArgs[p].payload
       ELSE Wire(p) = pubArgs[p].payload

\* a mapping whose key is a str: the keys JSON has
JsonKeyed(payload) == payload.type = "dict" => payload.val[1].py = "str"

=============================================================================
